---- MODULE Spec2Model ----
(***************************************************************************)
(* Model of scraper.py: the retrying fetcher (fetch_with_retries), the     *)
(* result page walker (scrape_maps_data), the email extractor              *)
(* (extract_email_from_website), the writer (save_to_csv) and main.        *)
(* The program is single-threaded; pc is the position of its one flow of   *)
(* control.  The upstream API, the business websites and the file system   *)
(* are the environment: their answers are chosen nondeterministically.     *)
(***************************************************************************)
EXTENDS Integers, Sequences, FiniteSets, TLC

\* ------------------------------------------------------------ constants
\* fetch_with_retries(url, params, max_retries=3)
max_retries == 3
\* max_pages = 3 in scrape_maps_data
max_pages == 3
\* delay = 1 at the start of fetch_with_retries
InitialDelay == 1

\* ------------------------------------------------------------ bounds
\* entries in one page's local_results
MaxEntries == 2
\* pattern matches in one homepage body
MaxMatches == 2
\* entries in one page's local_results when every request is recorded
MaxTracedEntries == 1
\* pattern matches in the body of a mocked homepage
MaxBodyMatches == 3
\* pages and homepage answers the mocks of a repeated walk hold
MaxMockPages == 2
MaxMockSites == 2

\* ------------------------------------------------------------ values
\* Python's None, where the other values are strings
None == "<None>"

\* The fixed search endpoint and the query parameters of the first request
SearchEndpoint == "https://serpapi.com/search.json"
FullParams == "engine,q,type,hl,api_key"
EmptyParams == "{}"
\* A continuation URL as supplied in serpapi_pagination.next
Cursor == "https://serpapi.com/search.json?next"
OtherCursor == "https://serpapi.com/search.json?start=40"

\* Upstream entries (place): every field is None (missing or null) or a string.
EntryAcme ==
    [title |-> "Acme", name |-> None, phone |-> "0700",
     website |-> "http://acme.test", address |-> "1 High St"]
EntryBolt ==
    [title |-> None, name |-> "Bolt", phone |-> None,
     website |-> None, address |-> None]
Entries == {EntryAcme, EntryBolt}

RECURSIVE SeqsUpTo(_, _)
SeqsUpTo(S, n) ==
    IF n = 0 THEN {<<>>}
    ELSE LET shorter == SeqsUpTo(S, n - 1)
         IN  shorter \cup {Append(s, x) : s \in {t \in shorter : Len(t) = n - 1}, x \in S}

LocalLists == SeqsUpTo(Entries, MaxEntries)

\* What response.json() can yield.  kind "null" is Python's None (a JSON null
\* body, and also the failure signal of fetch_with_retries); "emptydict" is {};
\* "list" is a non-empty JSON array; "dict" is a non-empty mapping, whose keys
\* error / local_results / serpapi_pagination.next may or may not be present.
NonePayload ==
    [kind |-> "null", error |-> FALSE, has_local |-> FALSE,
     local_results |-> <<>>, next |-> None]
EmptyDictPayload == [NonePayload EXCEPT !.kind = "emptydict"]
ListPayload == [NonePayload EXCEPT !.kind = "list"]
DictPayloads ==
    {[kind |-> "dict", error |-> e, has_local |-> TRUE, local_results |-> l, next |-> n] :
        e \in BOOLEAN, l \in LocalLists, n \in {None, Cursor}}
    \cup
    {[kind |-> "dict", error |-> e, has_local |-> FALSE, local_results |-> <<>>, next |-> n] :
        e \in BOOLEAN, n \in {None, Cursor}}
Payloads == DictPayloads \cup {NonePayload, EmptyDictPayload, ListPayload}
\* The pages offered when every request is recorded
TracedPayloads == {p \in Payloads : Len(p.local_results) <= MaxTracedEntries}
\* The pages offered when the requests of the whole run are counted: a page
\* can carry either of two cursors
CountedPayloads ==
    TracedPayloads
    \cup {[p EXCEPT !.next = OtherCursor] : p \in {q \in TracedPayloads : q.next = Cursor}}

\* Python truthiness of a parsed payload (`if not results`)
Truthy(p) == p.kind \in {"dict", "list"}
\* Python truthiness of a field value
TruthyStr(v) == v # None /\ v # ""

\* ------------------------------------------------------------ state
VARIABLES
    pc,          \* position of the flow of control
    exc,         \* the exception propagating to main's handlers, or None
    \* fetch_with_retries locals
    attempt,     \* loop variable of `for attempt in range(max_retries)`
    delay,       \* current base delay
    outcomes,    \* what each request of this call met, in order
    waits,       \* seconds slept after each unsuccessful request of this call
    result,      \* the value returned (results in the walker)
    \* scrape_maps_data locals
    url, params, businesses, page_count,
    idx,         \* index of the current place in local_results (0 outside the loop)
    email,       \* the local email of the current place
    \* environment and history
    fetchCalls,  \* calls of fetch_with_retries made by the walk
    pagesSeen,   \* the usable payloads fetch_with_retries returned, in order (recorded runs)
    delivered,   \* the entries of the fetched pages that carry no error field, in order
    dumps,       \* page numbers of the dump files written
    dumpFailed,  \* a dump file could not be written
    lastExtract, \* how the last call of extract_email_from_website ended
    received,    \* the parsed body of the 200 response of this fetch call, if any
    traced,      \* whether outcomes and waits are recorded in this run
    csv,         \* the output file: whether it exists, and its rows
    counted,     \* whether the requests of the whole run are counted in this run
    requests,    \* requests sent to the upstream API in the whole run (counted runs)
    usable,      \* calls of fetch_with_retries that returned a usable payload
    extracted,   \* the websites extract_email_from_website was called with, in order
    \* a harness that calls scrape_maps_data twice against mocks
    mockPages,   \* the parsed bodies the mocked upstream answers with, in order
    mockSites,   \* the answers of the mocked websites, in order
    run,         \* which call of scrape_maps_data this is (1 or 2)
    firstRun     \* the list the first call returned

vars == <<pc, exc, attempt, delay, outcomes, waits, result, url, params, businesses,
          page_count, idx, email, fetchCalls, pagesSeen, delivered, dumps,
          dumpFailed, lastExtract, received, traced, csv, counted, requests,
          usable, extracted, mockPages, mockSites, run, firstRun>>

fetchVars == <<attempt, delay, outcomes, waits, received>>
walkVars == <<url, params, businesses, page_count, idx, email>>
\* How the run is observed and what it runs against: no step of the program
\* changes these
modeVars == <<traced, counted, mockPages, mockSites, run, firstRun>>
\* Observations that no step of the program reads
ghostVars == <<requests, usable, extracted>>

StartState(t, c) ==
    /\ traced = t
    /\ counted = c
    /\ requests = 0 /\ usable = 0 /\ extracted = <<>>
    /\ pc = "main"
    /\ exc = None
    /\ attempt = 0 /\ delay = InitialDelay /\ outcomes = <<>> /\ waits = <<>>
    /\ result = NonePayload
    /\ url = None /\ params = None
    /\ businesses = <<>> /\ page_count = 0 /\ idx = 0 /\ email = None
    /\ fetchCalls = 0 /\ pagesSeen = <<>> /\ delivered = <<>>
    /\ dumps = <<>> /\ dumpFailed = FALSE
    /\ lastExtract = None
    /\ received = NonePayload
    /\ csv = [exists |-> FALSE, rows |-> <<>>]

\* A run of main: no mocks
InitMode(t, c) ==
    /\ StartState(t, c)
    /\ mockPages = <<>> /\ mockSites = <<>> /\ run = 1 /\ firstRun = <<>>

InitWith(t) == InitMode(t, FALSE)

\* The state when main is about to call scrape_maps_data
Init == InitWith(FALSE)
\* The same state, in a run that records what each request meets
TracedInit == InitWith(TRUE)

\* History is appended only in a run that records it
Record(log, x) == IF traced THEN Append(log, x) ELSE log
PageChoices ==
    IF counted THEN CountedPayloads ELSE IF traced THEN TracedPayloads ELSE Payloads
\* One more request, in a run that counts them
Counted(n) == IF counted THEN n + 1 ELSE n

\* An exception leaves scrape_maps_data: its frame and the frames of the
\* functions it called are gone, and main's `businesses` was never assigned.
Unwound ==
    /\ url' = None /\ params' = None /\ businesses' = <<>> /\ page_count' = 0
    /\ idx' = 0 /\ email' = None
    /\ result' = NonePayload
    /\ attempt' = 0 /\ delay' = InitialDelay /\ outcomes' = <<>> /\ waits' = <<>>
    /\ received' = NonePayload

\* ------------------------------------------------------------ fetch_with_retries
\* What one requests.get(url, params, timeout=15) of the fetcher can meet:
\* status 0 stands for no response at all (timeout, connection or DNS failure);
\* json tells whether the body of a response parses as JSON.
NetworkFailure == [status |-> 0, json |-> FALSE]
Parsed200 == [status |-> 200, json |-> TRUE]
Unparsable200 == [status |-> 200, json |-> FALSE]
RateLimited == [status |-> 429, json |-> FALSE]
ServerError == [status |-> 500, json |-> FALSE]
FailedAttempts == {NetworkFailure, Unparsable200, RateLimited, ServerError}

\* requests.exceptions.RequestException and its subclasses.  requests raises
\* requests.exceptions.JSONDecodeError (a RequestException) from Response.json().
RequestExceptions == {"ConnectionError", "JSONDecodeError"}

\* The exception the body of the try block raises on an attempt, or None:
\* requests.get raises on a network failure, response.json() on a 200 whose
\* body is not JSON.
RaisedInTry(o) ==
    IF o.status = 0 THEN "ConnectionError"
    ELSE IF o.status = 200 /\ ~o.json THEN "JSONDecodeError"
    ELSE None

\* `except RequestException as e` of fetch_with_retries
OnlyConnectionErrors(e) == e = "ConnectionError"
FetcherCatchesAll(e) == TRUE
FetcherCatches(e) == e \in RequestExceptions

\* `for attempt in range(max_retries)`
RangeOneMore(a) == a <= max_retries
InRange(a) == a < max_retries

\* time.sleep(delay * 2) on a 429
RateLimitSleep(o, d) == IF RaisedInTry(o) = None /\ o.status = 429 THEN d * 2 ELSE 0

\* `if attempt < max_retries - 1: time.sleep(delay); delay *= 2`
NoBackoff(a, d) == d
NextDelay(a, d) == IF a < max_retries - 1 THEN d * 2 ELSE d
RetrySleep(a, d) == IF a < max_retries - 1 THEN d ELSE 0

\* An attempt that gets a 200 with a JSON body p: `return response.json()`
FetchOk(p) ==
    /\ pc = "fetch" /\ InRange(attempt)
    /\ outcomes' = Record(outcomes, Parsed200)
    /\ received' = p
    /\ result' = p
    /\ pc' = "fetch_ret"
    /\ requests' = Counted(requests)
    /\ UNCHANGED <<exc, attempt, delay, waits, walkVars, fetchCalls, pagesSeen, delivered, dumps,
                   dumpFailed, lastExtract, csv, modeVars, usable, extracted>>

\* An attempt that does not return: 429, another status, a network failure, or
\* a 200 whose body is not JSON.  A caught exception and a non-200 status both
\* fall through to the backoff at the end of the loop body.
FetchFail(o) ==
    /\ pc = "fetch" /\ InRange(attempt)
    /\ outcomes' = Record(outcomes, o)
    /\ IF RaisedInTry(o) # None /\ ~FetcherCatches(RaisedInTry(o))
       THEN /\ exc' = RaisedInTry(o)
            /\ pc' = "raised"
            /\ UNCHANGED <<attempt, delay, waits>>
       ELSE /\ waits' = Record(waits, RateLimitSleep(o, delay) + RetrySleep(attempt, delay))
            /\ delay' = NextDelay(attempt, delay)
            /\ attempt' = attempt + 1
            /\ pc' = "fetch"
            /\ exc' = exc
    /\ requests' = Counted(requests)
    /\ UNCHANGED <<received, result, walkVars, fetchCalls, pagesSeen, delivered, dumps, dumpFailed,
                   lastExtract, csv, modeVars, usable, extracted>>

\* The loop is over: print("Max retries exceeded...") and return None
FetchGiveUp ==
    /\ pc = "fetch" /\ ~InRange(attempt)
    /\ result' = NonePayload
    /\ pc' = "fetch_ret"
    /\ UNCHANGED <<exc, fetchVars, walkVars, fetchCalls, pagesSeen, delivered, dumps, dumpFailed,
                   lastExtract, csv, modeVars, ghostVars>>

\* ------------------------------------------------------------ extract_email_from_website
\* The rejection list of the extractor
blacklist ==
    {"noreply", "no-reply", "example.com", "test.com", ".png", ".jpg", ".jpeg", ".gif",
     ".svg", "godaddy.com", "afterpay", "logo", "website.com"}

\* The strings the pattern can match in a homepage body: the walk meets
\* EmailMatches, a mocked website any of BodyMatches.
EmailMatches == {"sales@acme.com", "logo@godaddy.com", "NoReply@acme.com"}
BodyMatches == EmailMatches \cup {"info@bolt.com", "icon@2x.PNG"}

\* The characters of a string, in order
Chars(s) ==
    CASE s = "sales@acme.com" ->
           <<"s", "a", "l", "e", "s", "@", "a", "c", "m", "e", ".", "c", "o", "m">>
      [] s = "logo@godaddy.com" ->
           <<"l", "o", "g", "o", "@", "g", "o", "d", "a", "d", "d", "y", ".", "c", "o", "m">>
      [] s = "NoReply@acme.com" ->
           <<"N", "o", "R", "e", "p", "l", "y", "@", "a", "c", "m", "e", ".", "c", "o", "m">>
      [] s = "info@bolt.com" ->
           <<"i", "n", "f", "o", "@", "b", "o", "l", "t", ".", "c", "o", "m">>
      [] s = "icon@2x.PNG" ->
           <<"i", "c", "o", "n", "@", "2", "x", ".", "P", "N", "G">>
      [] s = "noreply" ->
           <<"n", "o", "r", "e", "p", "l", "y">>
      [] s = "no-reply" ->
           <<"n", "o", "-", "r", "e", "p", "l", "y">>
      [] s = "example.com" ->
           <<"e", "x", "a", "m", "p", "l", "e", ".", "c", "o", "m">>
      [] s = "test.com" ->
           <<"t", "e", "s", "t", ".", "c", "o", "m">>
      [] s = ".png" ->
           <<".", "p", "n", "g">>
      [] s = ".jpg" ->
           <<".", "j", "p", "g">>
      [] s = ".jpeg" ->
           <<".", "j", "p", "e", "g">>
      [] s = ".gif" ->
           <<".", "g", "i", "f">>
      [] s = ".svg" ->
           <<".", "s", "v", "g">>
      [] s = "godaddy.com" ->
           <<"g", "o", "d", "a", "d", "d", "y", ".", "c", "o", "m">>
      [] s = "afterpay" ->
           <<"a", "f", "t", "e", "r", "p", "a", "y">>
      [] s = "logo" ->
           <<"l", "o", "g", "o">>
      [] s = "website.com" ->
           <<"w", "e", "b", "s", "i", "t", "e", ".", "c", "o", "m">>

\* str.lower(), character by character
LowerChar(c) ==
    CASE c = "A" -> "a" [] c = "B" -> "b" [] c = "C" -> "c" [] c = "D" -> "d"
      [] c = "E" -> "e" [] c = "F" -> "f" [] c = "G" -> "g" [] c = "H" -> "h"
      [] c = "I" -> "i" [] c = "J" -> "j" [] c = "K" -> "k" [] c = "L" -> "l"
      [] c = "M" -> "m" [] c = "N" -> "n" [] c = "O" -> "o" [] c = "P" -> "p"
      [] c = "Q" -> "q" [] c = "R" -> "r" [] c = "S" -> "s" [] c = "T" -> "t"
      [] c = "U" -> "u" [] c = "V" -> "v" [] c = "W" -> "w" [] c = "X" -> "x"
      [] c = "Y" -> "y" [] c = "Z" -> "z"
      [] OTHER -> c
Lower(t) == [i \in 1..Len(t) |-> LowerChar(t[i])]

\* `bad in text`: bad occurs in text as a substring
Contains(bad, text) ==
    \E k \in 0..(Len(text) - Len(bad)) : \A i \in 1..Len(bad) : text[k + i] = bad[i]

\* For each match e, the rejection-list substrings that e.lower() contains
\* (`bad in e.lower()`)
BadPartsCaseSensitive ==
    [e \in BodyMatches |-> {bad \in blacklist : Contains(Chars(bad), Chars(e))}]
BadParts ==
    [e \in BodyMatches |-> {bad \in blacklist : Contains(Chars(bad), Lower(Chars(e)))}]
BadPartsOfLower(e) == BadParts[e]

\* A homepage answer: status 0 is a network failure (requests.get raises a
\* RequestException), emails is re.findall's list for the body, in document order.
WebsiteResponses ==
    {[status |-> s, emails |-> m] : s \in {0, 404}, m \in {<<>>}}
    \cup {[status |-> 200, emails |-> m] : m \in SeqsUpTo(EmailMatches, MaxMatches)}

\* The answers of a mocked homepage
BodyResponses ==
    {[status |-> s, emails |-> m] : s \in {0, 404}, m \in {<<>>}}
    \cup {[status |-> 200, emails |-> m] : m \in SeqsUpTo(BodyMatches, MaxBodyMatches)}

\* valid_emails = [e for e in emails if not any(bad in e.lower() for bad in blacklist)]
ValidEmails(emails) == SelectSeq(emails, LAMBDA e : BadPartsOfLower(e) \cap blacklist = {})

\* `except requests.RequestException as e` of extract_email_from_website:
\* requests.get raises a RequestException on a network failure.
ExtractorCatchesNothing(e) == FALSE
ExtractorCatches(e) == e \in RequestExceptions

\* The value extract_email_from_website(website_url) returns on answer r
\* (on a network failure: the value the except clause returns)
ExtractEmail(website_url, r) ==
    IF ~TruthyStr(website_url) THEN None
    ELSE IF r.status = 0 THEN None
    ELSE IF r.status = 200 /\ ValidEmails(r.emails) # <<>> THEN ValidEmails(r.emails)[1]
    ELSE None

\* How the call ended, for the record
ExtractOutcome(r) ==
    IF r.status = 0 THEN "network failure"
    ELSE IF r.status # 200 THEN "non-200 status"
    ELSE IF ValidEmails(r.emails) = <<>> THEN "no surviving match"
    ELSE "found"

\* ------------------------------------------------------------ scrape_maps_data
\* `x or ""`
KeepNone(v) == v
OrEmpty(v) == IF TruthyStr(v) THEN v ELSE ""

\* The dictionary appended for a place (keys Business Name, Phone Number,
\* Email Address, Website, Address)
MakeRecord(place, mail) ==
    [BusinessName |-> OrEmpty(IF TruthyStr(place.title) THEN place.title ELSE place.name),
     PhoneNumber |-> OrEmpty(place.phone),
     EmailAddress |-> OrEmpty(mail),
     Website |-> OrEmpty(place.website),
     Address |-> OrEmpty(place.address)]

\* businesses.append(...)
PrependRecord(list, rec) == <<rec>> \o list
AppendBusiness(list, rec) == Append(list, rec)

\* `while page_count < max_pages`
PageLoopOneMore(n) == n <= max_pages
PageLoopGuard(n) == n < max_pages

\* The loop test; entering the body calls fetch_with_retries(url, params).
WhileTest ==
    /\ pc = "while"
    /\ IF PageLoopGuard(page_count)
       THEN /\ pc' = "fetch"
            /\ fetchCalls' = fetchCalls + 1
            /\ attempt' = 0 /\ delay' = InitialDelay
            /\ outcomes' = <<>> /\ waits' = <<>> /\ received' = NonePayload
       ELSE /\ pc' = "walk_ret"
            /\ UNCHANGED <<fetchCalls, fetchVars>>
    /\ UNCHANGED <<exc, result, walkVars, pagesSeen, delivered, dumps, dumpFailed, lastExtract, csv, modeVars, ghostVars>>

\* `if not results: break`, else go on to the dump
RetryOnFailure(p) == IF Truthy(p) THEN "dump" ELSE "while"
AfterFetch(p) == IF Truthy(p) THEN "dump" ELSE "walk_ret"

CheckResults ==
    /\ pc = "fetch_ret"
    /\ pc' = AfterFetch(result)
    /\ pagesSeen' = IF Truthy(result) THEN Record(pagesSeen, result) ELSE pagesSeen
    /\ delivered' = IF result.kind = "dict" /\ ~result.error
                    THEN delivered \o result.local_results
                    ELSE delivered
    /\ attempt' = 0 /\ delay' = InitialDelay
    /\ outcomes' = <<>> /\ waits' = <<>> /\ received' = NonePayload
    /\ usable' = IF Truthy(result) THEN usable + 1 ELSE usable
    /\ UNCHANGED <<exc, result, walkVars, fetchCalls, dumps, dumpFailed, lastExtract, csv,
                   modeVars, requests, extracted>>

\* open(f"google_maps_result_page_{page_count+1}.json", "w") and json.dump:
\* the write succeeds, or open/write raises OSError, which nothing in
\* scrape_maps_data catches.
DumpNumberFromZero(n) == n
DumpNumber(n) == n + 1

DumpPage(ok) ==
    /\ pc = "dump"
    /\ IF ok
       THEN /\ dumps' = Append(dumps, DumpNumber(page_count))
            /\ pc' = "examine"
            /\ UNCHANGED <<exc, dumpFailed, fetchVars, result, walkVars>>
       ELSE /\ dumpFailed' = TRUE
            /\ exc' = "OSError"
            /\ pc' = "raised"
            /\ dumps' = dumps
            /\ Unwound
    /\ UNCHANGED <<fetchCalls, pagesSeen, delivered, lastExtract, csv, modeVars, ghostVars>>

\* Where the walk goes after looking at a dumped payload:
\*   results.keys() raises AttributeError on a payload that is no mapping;
\*   `if "error" in results: break`;
\*   local_results = results.get("local_results", []); `if not local_results: break`;
\*   otherwise the for loop over local_results starts.
IgnoreErrorField(p) ==
    IF p.kind # "dict" THEN "raised"
    ELSE IF p.local_results = <<>> THEN "walk_ret"
    ELSE "entry"
IgnoreEmptyResults(p) ==
    IF p.kind # "dict" THEN "raised"
    ELSE IF p.error THEN "walk_ret"
    ELSE IF p.local_results = <<>> THEN "paginate"
    ELSE "entry"
AfterExamine(p) ==
    IF p.kind # "dict" THEN "raised"
    ELSE IF p.error THEN "walk_ret"
    ELSE IF p.local_results = <<>> THEN "walk_ret"
    ELSE "entry"

ExaminePayload ==
    /\ pc = "examine"
    /\ pc' = AfterExamine(result)
    /\ IF AfterExamine(result) = "raised"
       THEN exc' = "AttributeError" /\ Unwound
       ELSE /\ idx' = IF AfterExamine(result) = "entry" THEN 1 ELSE idx
            /\ UNCHANGED <<exc, fetchVars, result, url, params, businesses, page_count, email>>
    /\ UNCHANGED <<fetchCalls, pagesSeen, delivered, dumps, dumpFailed, lastExtract, csv,
                   modeVars, ghostVars>>

\* Top of the for loop body: read the place's fields, email = None, `if website:`
ExtractAlways(website) == TRUE
NeedsExtraction(website) == TruthyStr(website)

StartEntry ==
    /\ pc = "entry"
    /\ email' = None
    /\ lastExtract' = None
    /\ pc' = IF NeedsExtraction(result.local_results[idx].website) THEN "extract" ELSE "append"
    /\ UNCHANGED <<exc, fetchVars, result, url, params, businesses, page_count, idx,
                   fetchCalls, pagesSeen, delivered, dumps, dumpFailed, csv, modeVars, ghostVars>>

\* email = extract_email_from_website(website), on the homepage answer r
ExtractStep(r) ==
    /\ pc = "extract"
    /\ lastExtract' = ExtractOutcome(r)
    /\ extracted' = Append(extracted, result.local_results[idx].website)
    /\ IF r.status = 0 /\ ~ExtractorCatches("ConnectionError")
       THEN exc' = "ConnectionError" /\ pc' = "raised" /\ Unwound
       ELSE /\ email' = ExtractEmail(result.local_results[idx].website, r)
            /\ pc' = "append"
            /\ UNCHANGED <<exc, fetchVars, result, url, params, businesses, page_count, idx>>
    /\ UNCHANGED <<fetchCalls, pagesSeen, delivered, dumps, dumpFailed, csv, modeVars,
                   requests, usable>>

\* businesses.append({...}) and the step of the for loop
AppendRecord ==
    /\ pc = "append"
    /\ businesses' = AppendBusiness(businesses, MakeRecord(result.local_results[idx], email))
    /\ email' = None
    /\ IF idx < Len(result.local_results)
       THEN idx' = idx + 1 /\ pc' = "entry"
       ELSE idx' = 0 /\ pc' = "paginate"
    /\ UNCHANGED <<exc, fetchVars, result, url, params, page_count,
                   fetchCalls, pagesSeen, delivered, dumps, dumpFailed, lastExtract, csv, modeVars, ghostVars>>

\* next_url = results.get("serpapi_pagination", {}).get("next")
KeepParams(old) == old
ParamsAfterCursor(old) == EmptyParams

Paginate ==
    /\ pc = "paginate"
    /\ IF TruthyStr(result.next)
       THEN /\ url' = result.next
            /\ params' = ParamsAfterCursor(params)
            /\ page_count' = page_count + 1
            /\ pc' = "while"
       ELSE /\ pc' = "walk_ret"
            /\ UNCHANGED <<url, params, page_count>>
    /\ lastExtract' = None
    /\ UNCHANGED <<exc, fetchVars, result, businesses, idx, email,
                   fetchCalls, pagesSeen, delivered, dumps, dumpFailed, csv, modeVars, ghostVars>>

\* ------------------------------------------------------------ save_to_csv, main
\* `if not data: print("No data to save"); return`
SavesAnything(data) == TRUE
SavesData(data) == data # <<>>

\* What open(filename, "w") and the DictWriter can meet
SaveOutcomes == {"written", "open raises", "write raises"}

\* save_to_csv(businesses) after scrape_maps_data returned.  Nothing in
\* save_to_csv catches the OSError of open or of a write; a file that was
\* opened exists, with the rows written so far (here: none).
SaveToCsv(out) ==
    /\ pc = "walk_ret"
    /\ IF ~SavesData(businesses) \/ out = "written"
       THEN /\ csv' = IF SavesData(businesses)
                      THEN [exists |-> TRUE, rows |-> businesses]
                      ELSE csv
            /\ pc' = "done"
            /\ exc' = exc
       ELSE /\ csv' = IF out = "open raises" THEN csv ELSE [exists |-> TRUE, rows |-> <<>>]
            /\ pc' = "raised"
            /\ exc' = "OSError"
    /\ UNCHANGED <<fetchVars, result, walkVars, fetchCalls, pagesSeen, delivered, dumps,
                   dumpFailed, lastExtract, modeVars, ghostVars>>

\* The classes below Exception that the run can raise
ExceptionClasses == RequestExceptions \cup {"OSError", "AttributeError"}

\* `except KeyboardInterrupt` and `except Exception as e` of main
MainCatchesInterruptOnly(e) == e = "KeyboardInterrupt"
MainCatches(e) == e = "KeyboardInterrupt" \/ e \in ExceptionClasses

\* The handlers of main: print a message and fall off the end of main; an
\* exception that neither clause matches leaves main.
MainExcept ==
    /\ pc = "raised"
    /\ pc' = IF MainCatches(exc) THEN "done" ELSE "crashed"
    /\ UNCHANGED <<exc, fetchVars, result, walkVars, fetchCalls, pagesSeen, delivered, dumps,
                   dumpFailed, lastExtract, csv, modeVars, ghostVars>>

\* `businesses = []`: a new list on every call, whatever an earlier call left
SharedList(old) == old
FreshList(old) == <<>>

\* businesses = scrape_maps_data(): the locals set before the while loop
CallScrape ==
    /\ pc = "main"
    /\ url' = SearchEndpoint
    /\ params' = FullParams
    /\ businesses' = FreshList(businesses)
    /\ page_count' = 0
    /\ pc' = "while"
    /\ UNCHANGED <<exc, fetchVars, result, idx, email, fetchCalls, pagesSeen, delivered, dumps,
                   dumpFailed, lastExtract, csv, modeVars, ghostVars>>

\* The positions between the start of the try block of main and the call of
\* save_to_csv
BeforeTheWrite ==
    {"main", "while", "fetch", "fetch_ret", "dump", "examine", "entry", "extract", "append",
     "paginate", "walk_ret"}

\* The user presses Ctrl-C: KeyboardInterrupt is raised where the program is.
\* Inside the try block of fetch_with_retries (a request in flight) or of
\* extract_email_from_website the except clause sees it first.
Interrupt ==
    /\ pc \in BeforeTheWrite
    /\ IF pc = "fetch" /\ InRange(attempt) /\ FetcherCatches("KeyboardInterrupt")
       THEN /\ waits' = Record(waits, RetrySleep(attempt, delay))
            /\ delay' = NextDelay(attempt, delay)
            /\ attempt' = attempt + 1
            /\ UNCHANGED <<pc, exc, outcomes, received, result, walkVars>>
       ELSE IF pc = "extract" /\ ExtractorCatches("KeyboardInterrupt")
       THEN /\ email' = None
            /\ pc' = "append"
            /\ UNCHANGED <<exc, fetchVars, result, url, params, businesses, page_count, idx>>
       ELSE /\ exc' = "KeyboardInterrupt"
            /\ pc' = "raised"
            /\ Unwound
    /\ UNCHANGED <<fetchCalls, pagesSeen, delivered, dumps, dumpFailed, lastExtract, csv,
                   modeVars, ghostVars>>

Next ==
    \/ CallScrape
    \/ WhileTest
    \/ \E p \in PageChoices : FetchOk(p)
    \/ \E o \in FailedAttempts : FetchFail(o)
    \/ FetchGiveUp
    \/ CheckResults
    \/ \E ok \in BOOLEAN : DumpPage(ok)
    \/ ExaminePayload
    \/ StartEntry
    \/ \E r \in WebsiteResponses : ExtractStep(r)
    \/ AppendRecord
    \/ Paginate
    \/ \E out \in SaveOutcomes : SaveToCsv(out)
    \/ MainExcept
    \/ Interrupt

Spec == Init /\ [][Next]_vars

\* ------------------------------------------------------------ runs against mocks
\* The mocked upstream answers the k-th call of fetch_with_retries with the
\* k-th page, and with a 500 once it has no page left; the mocked websites
\* answer the k-th extraction with the k-th answer, and with a 404 once they
\* have none left.  Files can be written and nobody interrupts.
MockAnswer ==
    IF Len(extracted) < Len(mockSites) THEN mockSites[Len(extracted) + 1]
    ELSE [status |-> 404, emails |-> <<>>]

\* The harness calls scrape_maps_data() a second time, keeping the list the
\* first call returned.
RunAgain ==
    /\ pc = "walk_ret" /\ run = 1
    /\ firstRun' = businesses /\ run' = 2
    /\ pc' = "main"
    /\ url' = None /\ params' = None /\ page_count' = 0 /\ idx' = 0 /\ email' = None
    /\ result' = NonePayload
    /\ fetchCalls' = 0 /\ pagesSeen' = <<>> /\ delivered' = <<>> /\ dumps' = <<>>
    /\ lastExtract' = None
    /\ requests' = 0 /\ usable' = 0 /\ extracted' = <<>>
    /\ UNCHANGED <<exc, fetchVars, businesses, dumpFailed, csv, traced, counted, mockPages,
                   mockSites>>

MockedNext ==
    \/ CallScrape
    \/ WhileTest
    \/ (fetchCalls <= Len(mockPages) /\ FetchOk(mockPages[fetchCalls]))
    \/ (fetchCalls > Len(mockPages) /\ FetchFail(ServerError))
    \/ FetchGiveUp
    \/ CheckResults
    \/ DumpPage(TRUE)
    \/ ExaminePayload
    \/ StartEntry
    \/ ExtractStep(MockAnswer)
    \/ AppendRecord
    \/ Paginate
    \/ RunAgain

\* One page with one place that has a website, and a cursor
AcmePage ==
    [kind |-> "dict", error |-> FALSE, has_local |-> TRUE, local_results |-> <<EntryAcme>>,
     next |-> Cursor]

\* extract_email_from_website on every homepage answer
ExtractInit ==
    /\ StartState(FALSE, FALSE)
    /\ mockPages = <<AcmePage>>
    /\ mockSites \in {<<r>> : r \in BodyResponses}
    /\ run = 1 /\ firstRun = <<>>

ExtractSpec == ExtractInit /\ [][MockedNext]_vars

\* The pages of the mocked upstream: places in both orders, with and without
\* a cursor, and a page with an error field
MockPageSet ==
    {AcmePage,
     [kind |-> "dict", error |-> FALSE, has_local |-> TRUE,
      local_results |-> <<EntryBolt, EntryAcme>>, next |-> Cursor],
     [kind |-> "dict", error |-> FALSE, has_local |-> TRUE,
      local_results |-> <<EntryAcme, EntryBolt>>, next |-> None],
     [kind |-> "dict", error |-> TRUE, has_local |-> TRUE,
      local_results |-> <<EntryAcme>>, next |-> Cursor]}

\* The answers of the mocked websites: no answer, an address, a rejected
\* match before an address
MockSiteSet ==
    {[status |-> 0, emails |-> <<>>],
     [status |-> 200, emails |-> <<"sales@acme.com">>],
     [status |-> 200, emails |-> <<"logo@godaddy.com", "info@bolt.com">>]}

\* scrape_maps_data called twice against the same mocks
ReplayInit ==
    /\ StartState(FALSE, FALSE)
    /\ mockPages \in SeqsUpTo(MockPageSet, MaxMockPages)
    /\ mockSites \in SeqsUpTo(MockSiteSet, MaxMockSites)
    /\ run = 1 /\ firstRun = <<>>

ReplaySpec == ReplayInit /\ [][MockedNext]_vars

\* The program takes a step whenever it can: nothing but the process itself
\* schedules its single flow of control.
FairSpec == Spec /\ WF_vars(Next)

\* The program with every request of the fetcher recorded
TracedSpec == TracedInit /\ [][Next]_vars

\* The program with the requests of the whole run counted
CountedInit == InitMode(FALSE, TRUE)
CountedSpec == CountedInit /\ [][Next]_vars
FairTracedSpec == TracedSpec /\ WF_vars(Next)

\* ------------------------------------------------------------ properties
InLoopBody ==
    pc \in {"fetch", "fetch_ret", "dump", "examine", "entry", "extract", "append", "paginate"}

\* A step of fetch_with_retries
FetchStep ==
    \/ \E p \in PageChoices : FetchOk(p)
    \/ \E o \in FailedAttempts : FetchFail(o)
    \/ FetchGiveUp

\* C1: whatever the upstream answers, also when every page carries a
\* continuation cursor, the loop body of scrape_maps_data is entered (and
\* fetch_with_retries called) at most max_pages times: the body runs only
\* while page_count < max_pages, one call per iteration, and once page_count
\* has reached max_pages the walk is at its loop test or has returned.
C1_PageCap ==
    /\ fetchCalls <= max_pages
    /\ page_count <= max_pages
    /\ InLoopBody => (page_count < max_pages /\ fetchCalls = page_count + 1)
    /\ page_count = max_pages => pc \in {"while", "walk_ret", "raised", "done"}

\* Three pages, each with a cursor, were processed and the walk returned.
C1_Witness ==
    /\ pc = "walk_ret" /\ fetchCalls = max_pages /\ page_count = max_pages
    /\ result.next = Cursor /\ Len(businesses) = max_pages * MaxEntries

\* Every request of the call met a 500, for the whole retry budget.
AllServerErrors ==
    /\ Len(outcomes) = max_retries
    /\ \A i \in 1..Len(outcomes) : outcomes[i] = ServerError

\* C2: when every request of a call of fetch_with_retries gets a 500 for the
\* whole retry budget, no further request is made, the call returns None, the
\* walk's next step is to return with the records of the earlier pages
\* untouched and without another fetch, and the walk does get there unless
\* the user interrupts the run first.
C2_AllServerErrorsEndTheWalk ==
    /\ [](AllServerErrors =>
            /\ ~(pc = "fetch" /\ InRange(attempt))
            /\ pc = "fetch_ret" => result = NonePayload)
    /\ [][(AllServerErrors /\ CheckResults) =>
            (pc' = "walk_ret" /\ businesses' = businesses /\ fetchCalls' = fetchCalls
             /\ exc' = None)]_vars
    /\ (AllServerErrors ~> (pc = "walk_ret" \/ exc = "KeyboardInterrupt"))

\* The second page's fetch has just failed on three 500s; page 1 gave a record.
C2_Witness ==
    /\ pc = "fetch_ret" /\ AllServerErrors /\ result = NonePayload
    /\ fetchCalls = 2 /\ businesses # <<>>

\* C3 as stated: at most max_retries requests; no request after the first
\* response with status 200, whose parsed body is returned; the failure
\* signal is returned exactly when all max_retries requests were non-200 or
\* failed.
C3_Original ==
    /\ Len(outcomes) <= max_retries
    /\ \A i \in 1..Len(outcomes) : outcomes[i].status = 200 => i = Len(outcomes)
    /\ pc = "fetch_ret" =>
         IF \E i \in 1..Len(outcomes) : outcomes[i].status = 200
         THEN result = received
         ELSE result = NonePayload /\ Len(outcomes) = max_retries

\* C3 (amended): at most max_retries requests, counting the first; no request
\* after the first 200 whose body parses as JSON, and that parsed body is what
\* the call returns; without such a response the call returns None, and only
\* after all max_retries requests were made.
C3_Amended ==
    /\ Len(outcomes) <= max_retries
    /\ \A i \in 1..Len(outcomes) : outcomes[i] = Parsed200 => i = Len(outcomes)
    /\ pc = "fetch_ret" =>
         IF \E i \in 1..Len(outcomes) : outcomes[i] = Parsed200
         THEN result = received
         ELSE result = NonePayload /\ Len(outcomes) = max_retries
    /\ (pc = "fetch" /\ outcomes # <<>>) => outcomes[Len(outcomes)] # Parsed200

\* A 200 with an unparsable body was followed by further requests, the third
\* of which returned a page.
C3_Witness ==
    /\ pc = "fetch_ret" /\ Len(outcomes) = max_retries
    /\ outcomes[1] = Unparsable200 /\ outcomes[max_retries] = Parsed200
    /\ result.kind = "dict" /\ result.local_results # <<>>

\* The call started with two consecutive 429 responses.
TwoRateLimits ==
    Len(outcomes) >= 2 /\ outcomes[1] = RateLimited /\ outcomes[2] = RateLimited

\* C4: after two consecutive 429 responses a third request is issued; the
\* wait before it (2 x 2 + 2 seconds) is strictly longer than the wait before
\* the second request (2 x 1 + 1 seconds); and when the third response is a
\* 200 the call returns its body, three requests having been made in all.
C4_Backoff ==
    TwoRateLimits =>
        /\ Len(waits) >= 2
        /\ waits[1] = 2 * InitialDelay + InitialDelay
        /\ waits[2] = 2 * (2 * InitialDelay) + 2 * InitialDelay
        /\ waits[2] > waits[1]
        /\ Len(outcomes) = 2 => (pc = "fetch" /\ InRange(attempt))
        /\ (Len(outcomes) >= 3 /\ outcomes[3] = Parsed200) =>
              (Len(outcomes) = 3 /\ pc = "fetch_ret" /\ result = received)

C4_Witness ==
    /\ pc = "fetch_ret" /\ outcomes = <<RateLimited, RateLimited, Parsed200>>
    /\ waits = <<3, 6>> /\ result.kind = "dict"

\* C5: no step of fetch_with_retries raises: whatever an attempt meets (200,
\* 429, another status, a network failure, an unparsable body) the call stays
\* in its loop or returns a parsed payload or None, and no exception is set.
C5_FetcherNeverRaises ==
    [][FetchStep =>
        /\ exc' = None
        /\ pc' \in {"fetch", "fetch_ret"}
        /\ pc' = "fetch_ret" => result' \in Payloads]_vars

\* A call that met a network failure, an unparsable 200 and a 500 returned None.
C5_Witness ==
    /\ pc = "fetch_ret" /\ exc = None /\ result = NonePayload
    /\ outcomes = <<NetworkFailure, Unparsable200, ServerError>>

\* rec is the record of place, whatever the extraction gave
IsRecordOf(rec, place) ==
    \E m \in EmailMatches \cup {None} : rec = MakeRecord(place, m)

\* C6: the records are, position by position, the records of the entries the
\* upstream delivered on the pages without an error field, pages in fetch
\* order and entries in page order: at any time a prefix of them, and all of
\* them, no more and no fewer, when the walk returns.
C6_OrderPreserved ==
    /\ Len(businesses) <= Len(delivered)
    /\ \A k \in 1..Len(businesses) : IsRecordOf(businesses[k], delivered[k])
    /\ pc = "walk_ret" => Len(businesses) = Len(delivered)

\* Two pages of two different entries each, in opposite orders; the walk
\* returned four records, one extraction having failed.
C6_Witness ==
    /\ pc = "walk_ret" /\ fetchCalls = 2
    /\ delivered = <<EntryBolt, EntryAcme, EntryAcme, EntryBolt>>
    /\ Len(businesses) = 4
    /\ businesses[2].EmailAddress = "" /\ businesses[3].EmailAddress = "sales@acme.com"

\* The walk looks at a mapping whose local_results is absent or empty: a
\* non-empty one after its dump, the empty mapping right after the fetch.
LooksAtNoLocalResults ==
    \/ ExaminePayload /\ result.kind = "dict" /\ result.local_results = <<>>
    \/ CheckResults /\ result = EmptyDictPayload

\* The walk stops here: it returns what it had, raising nothing and fetching
\* nothing more.
StopsTheWalk ==
    /\ pc' = "walk_ret"
    /\ exc' = None
    /\ businesses' = businesses
    /\ fetchCalls' = fetchCalls

\* C7: when the walk looks at a fetched payload whose local_results is empty
\* or absent (the empty mapping included), it stops at that page: it returns
\* exactly the records it had, without raising, and once returned it fetches
\* no further page, cursor or not.
C7_NoLocalResultsStops ==
    [][/\ LooksAtNoLocalResults => StopsTheWalk
       /\ pc = "walk_ret" => (fetchCalls' = fetchCalls /\ pc' \notin {"while", "fetch"})]_vars

\* The second page had a cursor but no local_results; the walk returned with
\* the first page's records.
C7_Witness ==
    /\ pc = "walk_ret" /\ exc = None
    /\ result.kind = "dict" /\ ~result.error /\ result.local_results = <<>>
    /\ result.next = Cursor
    /\ fetchCalls = 2 /\ Len(businesses) = MaxEntries
    /\ businesses # <<>>

\* C8 as stated: a dump file that cannot be written does not abort the walk.
C8_DumpIsBestEffort ==
    dumpFailed => (exc = None /\ pc # "raised")

\* C9: when the walk looks at a payload with an error field, it stops at that
\* page: no record is made of the page's local_results, nothing is raised, no
\* further page is fetched even with a cursor, and the records of the earlier
\* pages are what it returns.
C9_ErrorFieldStops ==
    [][/\ (ExaminePayload /\ result.kind = "dict" /\ result.error) => StopsTheWalk
       /\ (pc = "walk_ret" /\ result.error) =>
             /\ fetchCalls' = fetchCalls /\ pc' \notin {"while", "fetch"}
             /\ pc' = "done" => businesses' = businesses]_vars

\* The second page had an error field, entries and a cursor; the walk
\* returned with the first page's records only.
C9_Witness ==
    /\ pc = "walk_ret" /\ exc = None
    /\ result.kind = "dict" /\ result.error /\ result.local_results # <<>>
    /\ result.next = Cursor
    /\ fetchCalls = 2 /\ Len(businesses) = MaxEntries
    /\ businesses # <<>>

ExtractionFailed ==
    lastExtract \in {"network failure", "non-200 status", "no surviving match"}

\* C10: a failed extraction (network failure, non-200 status, no surviving
\* match) raises nothing and yields no email; the entry's record is then
\* appended, with its website and an empty Email Address, and the walk goes
\* on to the next entry or to pagination.
C10_ExtractionFailureContained ==
    [][/\ (pc = "extract" /\ ExtractionFailed') =>
             (exc' = None /\ pc' = "append" /\ email' = None /\ businesses' = businesses)
       /\ (AppendRecord /\ ExtractionFailed) =>
             /\ businesses' = Append(businesses, businesses'[Len(businesses')])
             /\ businesses'[Len(businesses')].EmailAddress = ""
             /\ businesses'[Len(businesses')].Website = result.local_results[idx].website
             /\ exc' = None
             /\ pc' = (IF idx < Len(result.local_results) THEN "entry" ELSE "paginate")]_vars

\* After an extraction that met a network failure the record was appended,
\* with its website and an empty email, after an earlier record whose email
\* was found; the walk is about to look for the next page.
C10_Witness ==
    /\ pc = "paginate" /\ exc = None /\ lastExtract = "network failure"
    /\ Len(businesses) = 2
    /\ businesses[1].EmailAddress = "sales@acme.com"
    /\ businesses[2].Website = "http://acme.test" /\ businesses[2].EmailAddress = ""

\* The five keys of a record, the columns of the output file
FiveFields == {"BusinessName", "PhoneNumber", "EmailAddress", "Website", "Address"}

\* rec has the five fields, each a string; a field the place lacks is ""
WellFormedFor(rec, place) ==
    /\ DOMAIN rec = FiveFields
    /\ \A f \in FiveFields : rec[f] \in STRING /\ rec[f] # None
    /\ (place.title = None /\ place.name = None) => rec.BusinessName = ""
    /\ place.phone = None => rec.PhoneNumber = ""
    /\ place.website = None => (rec.Website = "" /\ rec.EmailAddress = "")
    /\ place.address = None => rec.Address = ""

\* C11: every record of the walk, and every row of the output file, has all
\* five fields with a string value: a field the upstream entry lacks (absent
\* or null) and an email that was not found are the empty string, never None
\* and never a missing key.
C11_FiveStringFields ==
    /\ \A k \in 1..Len(businesses) : WellFormedFor(businesses[k], delivered[k])
    /\ \A k \in 1..Len(csv.rows) : WellFormedFor(csv.rows[k], delivered[k])

\* The file holds the row of an entry with nothing but a name, and the row of
\* an entry whose homepage gave no email.
C11_Witness ==
    /\ pc = "done" /\ csv.exists /\ Len(csv.rows) = 2
    /\ csv.rows[1] = [BusinessName |-> "Bolt", PhoneNumber |-> "", EmailAddress |-> "",
                      Website |-> "", Address |-> ""]
    /\ csv.rows[2].BusinessName = "Acme" /\ csv.rows[2].EmailAddress = ""
    /\ csv.rows[2].Website = "http://acme.test"

\* e, lower-cased, contains a substring of the rejection list
Rejected(e) == \E bad \in blacklist : Contains(Chars(bad), Lower(Chars(e)))

\* The first call of extract_email_from_website has returned
FirstExtractionReturned == pc = "append" /\ Len(extracted) = 1

\* C12: on a 200 answer extract_email_from_website returns the first pattern
\* match, in document order, that contains no substring of the rejection
\* list, compared case-insensitively; it returns no email when there is no
\* match or every match is rejected; it never returns a rejected match.
C12_FirstSurvivingMatch ==
    (FirstExtractionReturned /\ mockSites[1].status = 200) =>
        LET emails == mockSites[1].emails
        IN  /\ (\A i \in 1..Len(emails) : Rejected(emails[i])) => email = None
            /\ \A i \in 1..Len(emails) :
                  (~Rejected(emails[i]) /\ \A j \in 1..(i - 1) : Rejected(emails[j]))
                      => email = emails[i]
            /\ email # None => ~Rejected(email)

\* The body held a rejected match (an image name in capitals), then two good
\* ones: the first good one was returned.
C12_Witness ==
    /\ FirstExtractionReturned
    /\ mockSites[1] = [status |-> 200,
                       emails |-> <<"icon@2x.PNG", "info@bolt.com", "sales@acme.com">>]
    /\ email = "info@bolt.com"

\* C13: save_to_csv called with an empty list creates or modifies no output
\* file and raises nothing, whatever the file system would do; so a run whose
\* walk accumulated no record ends without an output file.
C13_NothingToSave ==
    /\ [][((\E out \in SaveOutcomes : SaveToCsv(out)) /\ businesses = <<>>) =>
            (csv' = csv /\ exc' = None /\ pc' = "done")]_vars
    /\ [](csv.exists => businesses # <<>>)

\* The first page was usable but had no local_results: the run ended
\* normally, with no record and no output file.
C13_Witness ==
    /\ pc = "done" /\ exc = None /\ businesses = <<>> /\ ~csv.exists
    /\ fetchCalls = 1 /\ usable = 1 /\ result.kind = "dict"

\* C14: a user interruption that arrives before the write step begins (in a
\* fetch, a retry sleep, an email extraction, an inter-page delay, or between
\* any two steps of the walk) is caught by no function below main: it reaches
\* main's handler, the records accumulated so far are gone, and the run ends
\* without the output file having been written.
C14_InterruptWritesNothing ==
    /\ [][Interrupt =>
            (exc' = "KeyboardInterrupt" /\ pc' = "raised" /\ businesses' = <<>> /\ csv' = csv)]_vars
    /\ [][(pc = "raised" /\ exc = "KeyboardInterrupt") => (pc' = "done" /\ csv' = csv)]_vars
    /\ [](exc = "KeyboardInterrupt" =>
            (pc \in {"raised", "done"} /\ businesses = <<>> /\ ~csv.exists))

\* The user interrupted the walk in its second page, after the entries of the
\* first had been processed; the run ended with no output file.
C14_Witness ==
    /\ pc = "done" /\ exc = "KeyboardInterrupt" /\ ~csv.exists
    /\ fetchCalls = 2 /\ usable = 2 /\ Len(extracted) >= 2

\* C15: whatever is raised during the page walk or the write step (an
\* OSError of a dump or of the output file, the AttributeError of a payload
\* that is no mapping, an interruption) is caught by a handler of main: no
\* exception leaves main, a raised exception's next step is the end of main,
\* and every run does reach that end.
C15_MainCatchesEverything ==
    /\ [](pc # "crashed")
    /\ [][pc = "raised" => (pc' = "done" /\ exc' = exc)]_vars
    /\ <>(pc = "done")

\* The second page's payload was a list: results.keys() raised
\* AttributeError, main logged it and ended.
C15_Witness ==
    /\ pc = "done" /\ exc = "AttributeError"
    /\ fetchCalls = 2 /\ pagesSeen[2] = ListPayload /\ ~csv.exists

\* C16: two calls of scrape_maps_data against the same mocked pages and the
\* same mocked website answers return identical lists: while the second call
\* runs, its list is the beginning of the first call's list, and when it
\* returns the two lists are equal.
C16_SameMocksSameRecords ==
    (run = 2 /\ pc # "main") =>
        /\ Len(businesses) <= Len(firstRun)
        /\ \A k \in 1..Len(businesses) : businesses[k] = firstRun[k]
        /\ pc = "walk_ret" => businesses = firstRun

\* Both calls walked two pages and returned the same three records: the
\* first one's address found behind a rejected match, the second one's
\* homepage not answering, the third without a website.
C16_Witness ==
    /\ run = 2 /\ pc = "walk_ret" /\ fetchCalls = 2
    /\ Len(firstRun) = 3 /\ businesses = firstRun
    /\ businesses[1].EmailAddress = "info@bolt.com"
    /\ businesses[2].BusinessName = "Acme" /\ businesses[2].EmailAddress = ""
    /\ businesses[3].BusinessName = "Bolt"

\* The page the walk processed last (results is not reassigned before the
\* next call of fetch_with_retries returns) carries a continuation cursor
HasCursor == result.kind = "dict" /\ TruthyStr(result.next)

\* C17: the first call of fetch_with_retries goes to the fixed search
\* endpoint with the full query parameters, credential included; every later
\* call goes to the cursor of the page processed just before it, with empty
\* parameters; a processed page without a cursor ends the walk, which
\* then returns and fetches nothing more.
C17_CursorChain ==
    /\ [](pc = "fetch" =>
            IF fetchCalls = 1
            THEN url = SearchEndpoint /\ params = FullParams
            ELSE /\ url = result.next
                 /\ HasCursor
                 /\ params = EmptyParams)
    /\ [][(Paginate /\ HasCursor) =>
            (url' = result.next /\ params' = EmptyParams /\ pc' = "while")]_vars
    /\ [][(Paginate /\ ~HasCursor) =>
            (pc' = "walk_ret" /\ fetchCalls' = fetchCalls /\ exc' = None)]_vars
    /\ [][pc = "walk_ret" => (pc' \notin BeforeTheWrite /\ fetchCalls' = fetchCalls)]_vars

\* The third fetch goes to the second page's cursor, after a failed request.
C17_Witness ==
    /\ pc = "fetch" /\ fetchCalls = 3 /\ attempt = 1
    /\ result.next = OtherCursor /\ delivered # <<>>
    /\ url = OtherCursor /\ params = EmptyParams

HasWebsite(place) == TruthyStr(place.website)

\* The websites of the first n delivered entries that have one, in order
WebsitesOfFirst(n) ==
    LET with == SelectSeq(SubSeq(delivered, 1, n), HasWebsite)
    IN  [i \in 1..Len(with) |-> with[i].website]

\* The walk is in the for loop over the entries of the current page
InEntryLoop == pc \in {"entry", "extract", "append"}

\* C18: while nothing has been raised, extract_email_from_website has been
\* called exactly once for each processed entry with a non-empty website,
\* never for one without, in entry order; entry idx of a page is taken up
\* only when the records of the entries before it are appended, its own
\* extraction having returned before its record is appended; and a page is
\* requested only when every entry of the pages before it has its record.
C18_OneExtractionPerEntryInOrder ==
    exc = None =>
        /\ pc = "extract" => HasWebsite(result.local_results[idx])
        /\ InEntryLoop =>
              Len(businesses) = Len(delivered) - Len(result.local_results) + idx - 1
        /\ extracted =
              WebsitesOfFirst(IF pc = "append" /\ HasWebsite(result.local_results[idx])
                              THEN Len(businesses) + 1
                              ELSE Len(businesses))
        /\ pc \in {"paginate", "while", "fetch", "fetch_ret", "walk_ret"}
              => Len(businesses) = Len(delivered)

\* On the second page the extraction for its second entry has returned and
\* its record is about to be appended: two calls so far, none for the two
\* entries without a website.
C18_Witness ==
    /\ pc = "append" /\ exc = None /\ fetchCalls = 2 /\ idx = 2
    /\ delivered = <<EntryAcme, EntryBolt, EntryBolt, EntryAcme>>
    /\ Len(businesses) = 3
    /\ extracted = <<"http://acme.test", "http://acme.test">>

\* The walk has looked, or is looking, at the fields of the current payload
PastTheDump == pc \in {"examine", "entry", "extract", "append", "paginate"}

\* C19: as long as the file system accepts the writes and the user does not
\* interrupt the run, the dump files are
\* exactly those numbered 1, 2, ... up to the number of calls of
\* fetch_with_retries that returned a usable (truthy) payload, one each and
\* never more than max_pages; the dump of a page is written before its error
\* field and local_results are looked at, so a page that stops the walk is
\* dumped too; and a call that returned no usable payload writes no dump.
C19_OneDumpPerUsablePage ==
    /\ [](/\ Len(dumps) <= usable /\ usable <= max_pages
          /\ \A i \in 1..Len(dumps) : dumps[i] = i
          /\ (~dumpFailed /\ exc # "KeyboardInterrupt")
                => Len(dumps) = (IF pc = "dump" THEN usable - 1 ELSE usable)
          /\ PastTheDump => (dumps # <<>> /\ dumps[Len(dumps)] = page_count + 1))
    /\ [][(CheckResults /\ ~Truthy(result)) => (dumps' = dumps /\ pc' = "walk_ret")]_vars
    /\ [][(pc # "dump") => (dumps' = dumps)]_vars

\* The second page carried an error field: it stopped the walk, and it was
\* dumped like the first.
C19_Witness ==
    /\ pc = "walk_ret" /\ result.kind = "dict" /\ result.error
    /\ fetchCalls = 2 /\ usable = 2 /\ dumps = <<1, 2>>

\* C20: whatever the upstream answers, one run sends at most max_pages x
\* max_retries requests to the upstream API: at most max_retries per call of
\* fetch_with_retries; and a call that used up its retry budget without a
\* usable payload ends the walk, which sends nothing more, rather than being
\* made again.
C20_RequestBudget ==
    /\ [](requests <= max_pages * max_retries)
    /\ [](requests <= fetchCalls * max_retries)
    /\ [][(CheckResults /\ result = NonePayload) =>
            (pc' = "walk_ret" /\ requests' = requests /\ fetchCalls' = fetchCalls)]_vars
    /\ [][(pc \in {"walk_ret", "raised", "done"}) => (requests' = requests)]_vars

\* Every call of the walk needed its third request: the first two pages came
\* on the third, the third page never came, and the walk is about to end.
C20_Witness ==
    /\ requests = max_pages * max_retries
    /\ pc = "fetch_ret" /\ fetchCalls = max_pages /\ attempt = max_retries
    /\ result = NonePayload /\ delivered # <<>>

====
